---- MODULE Spec2Model ----
(***************************************************************************)
(* Model of src/app.py: the index refresh routine update_vector_store with *)
(* its two triggers (the daily scheduler job and GET                       *)
(* /api/update_vectorstore), the query handler rag_processing, and the     *)
(* pure helpers the handler uses (the dictionary deduplication of line 168 *)
(* and truncate_context).                                                  *)
(*                                                                         *)
(* Text is a sequence of one-character strings.  The collaborators under   *)
(* functions/ (SupaBase, local_data_loader, CreateVector, ModifyingPrompt, *)
(* Chunk) are not part of src/: each call to one of them either returns or *)
(* raises, and CreateVector's build / persist / load is modelled after     *)
(* spec.md 4.3 and 5 (a new generation is built aside and swapped in       *)
(* atomically).                                                            *)
(***************************************************************************)
EXTENDS Integers, Sequences, FiniteSets, TLC

\* ------------------------------------------------------------------ bounds
\* longest context string handed to truncate_context
MaxLen == 4
\* largest token budget handed to truncate_context
MaxTokens == 3
\* longest list of retrieved passages handed to the deduplication
MaxDocs == 3
\* number of distinct metadata values a retrieved passage may carry
NumMeta == 2
\* most chunks the chunker returns for one query
MaxChunks == 2
\* most refreshes each trigger starts
MaxRuns == 1

\* ------------------------------------------------------------------- text
Whitespace == {" ", "\n"}
Letters == {"a", "b"}
Chars == Letters \cup Whitespace

RECURSIVE SplitFrom(_, _, _, _)
\* str.split() without arguments: runs of whitespace separate the tokens and
\* leading or trailing whitespace yields no empty token.
SplitFrom(s, i, cur, toks) ==
    IF i > Len(s)
    THEN IF cur = <<>> THEN toks ELSE Append(toks, cur)
    ELSE IF s[i] \in Whitespace
         THEN SplitFrom(s, i + 1, <<>>, IF cur = <<>> THEN toks ELSE Append(toks, cur))
         ELSE SplitFrom(s, i + 1, Append(cur, s[i]), toks)

Split(s) == SplitFrom(s, 1, <<>>, <<>>)

RECURSIVE Join(_, _)
\* sep.join(parts)
Join(sep, parts) ==
    IF parts = <<>> THEN <<>>
    ELSE IF Len(parts) = 1 THEN parts[1]
    ELSE parts[1] \o sep \o Join(sep, Tail(parts))

\* tokens[:max_tokens] for max_tokens >= 0
Take(tokens, n) == SubSeq(tokens, 1, IF n < Len(tokens) THEN n ELSE Len(tokens))

\* a slip in the slice: one token too many survives
truncate_context_off_by_one(context, max_tokens) ==
    LET tokens == Split(context)
    IN  Join(<<" ">>, IF Len(tokens) > max_tokens THEN Take(tokens, max_tokens + 1) ELSE tokens)

truncate_context(context, max_tokens) ==
    LET tokens == Split(context)
    IN  Join(<<" ">>, IF Len(tokens) > max_tokens THEN Take(tokens, max_tokens) ELSE tokens)

\* -------------------------------------------------------- deduplication
\* A dict is kept as the sequence of its (key, value) pairs in insertion order.
KeyIndex(d, k) ==
    IF \E j \in 1..Len(d) : d[j][1] = k
    THEN CHOOSE j \in 1..Len(d) : d[j][1] = k
    ELSE 0

\* a slip: an assignment to a key already present moves the key to the end
DictSetMovesKey(d, k, v) ==
    LET j == KeyIndex(d, k)
    IN  IF j = 0 THEN Append(d, <<k, v>>)
        ELSE Append(SubSeq(d, 1, j - 1) \o SubSeq(d, j + 1, Len(d)), <<k, v>>)

\* d[k] = v: a new key is appended, a key already present keeps its position
\* and gets the new value.
DictSet(d, k, v) ==
    LET j == KeyIndex(d, k)
    IN  IF j = 0 THEN Append(d, <<k, v>>) ELSE [d EXCEPT ![j] = <<k, v>>]

RECURSIVE DictFromDocs(_, _)
\* {doc.page_content: doc for doc in docs}, built left to right on top of d
DictFromDocs(d, docs) ==
    IF docs = <<>> THEN d
    ELSE DictFromDocs(DictSet(d, Head(docs).page_content, Head(docs)), Tail(docs))

DictValues(d) == [j \in 1..Len(d) |-> d[j][2]]

\* list({doc.page_content: doc for doc in all_retrieved_docs}.values())
Deduplicate(docs) == DictValues(DictFromDocs(<<>>, docs))

\* "\n".join([doc.page_content for doc in docs])
JoinContents(docs) == Join(<<"\n">>, [j \in 1..Len(docs) |-> docs[j].page_content])

\* ------------------------------------------------------------ documents
\* "L": a file under data/opendata; "R": a record of the remote store,
\* "QA": the question/answer pair a query pushes to the remote store.
DocIds == {"L", "R", "QA"}

PageContent(id) ==
    CASE id = "L" -> <<"a">>
      [] id = "R" -> <<"b">>
      [] id = "QA" -> <<"a", " ", "b">>

DocOf(id) == [page_content |-> PageContent(id), metadata |-> id]

\* the token budget rag_processing passes to truncate_context
ContextBudget == 6000

\* search_kwargs={"k": 2}
TopK == 2

\* No index has been persisted at 'data/static'.
NoIndex == [gen |-> -1, docs |-> {}, complete |-> FALSE]

NoResponse == [kind |-> "none"]

Threads == {"sched", "manual"}

StageOrder == <<"received", "chunked", "retrieved", "context_assembled", "answered">>

VARIABLES
    \* the file system and the remote store
    opendata, inputdata, remote, published,
    \* update_vector_store, one execution per trigger thread
    pc, combined_docs, unread, staging, outcome, logged, propagated, http, runs, gens,
    \* rag_processing
    qpc, chunks, vector_store, next_chunk, all_retrieved_docs, searched,
    context_docs, llm_answer_status, invocations, persist_failed, response, stages,
    \* inputs and results of the pure helpers
    tc_context, tc_max_tokens, tc_result, dd_docs, dd_result

fsVars == <<opendata, inputdata, remote, published>>
refreshVars == <<pc, combined_docs, unread, staging, outcome, logged, propagated, http, runs, gens>>
queryVars == <<qpc, chunks, vector_store, next_chunk, all_retrieved_docs, searched,
               context_docs, llm_answer_status, invocations, persist_failed, response, stages>>
pureVars == <<tc_context, tc_max_tokens, tc_result, dd_docs, dd_result>>
vars == <<fsVars, refreshVars, queryVars, pureVars>>

\* ------------------------------------------------ update_vector_store
\* The executions of update_vector_store that are between fetching the
\* sources and the end of create_vector_store.
RebuildPcs == {"fetch", "load", "build", "building"}

\* A trigger fires: the scheduler's interval job (line 83) or a request to
\* GET /api/update_vectorstore (line 87).  Neither takes a lock nor looks at
\* the other; the scheduler itself runs at most one instance of its job.
Trigger(t) ==
    /\ pc[t] = "idle"
    /\ runs[t] < MaxRuns
    /\ runs' = [runs EXCEPT ![t] = @ + 1]
    /\ pc' = [pc EXCEPT ![t] = "fetch"]
    /\ outcome' = [outcome EXCEPT ![t] = "running"]
    /\ logged' = [logged EXCEPT ![t] = "info"]
    /\ propagated' = [propagated EXCEPT ![t] = FALSE]
    /\ http' = [http EXCEPT ![t] = "none"]
    /\ combined_docs' = [combined_docs EXCEPT ![t] = {}]
    /\ unread' = [unread EXCEPT ![t] = {}]
    /\ UNCHANGED <<staging, gens, fsVars, queryVars, pureVars>>

\* a handler that lets the exception out of update_vector_store
ExceptClausePropagatesAll(raised) == raised

\* except Exception as e: logging.error(...) (lines 78-79): whether an
\* exception raised inside the try block leaves update_vector_store.
ExceptClausePropagates(raised) == FALSE

\* The try block raised at `cause`: lines 78-79 log the error, and the function
\* returns to its caller.
Raise(t, cause) ==
    /\ outcome' = [outcome EXCEPT ![t] = cause]
    /\ logged' = [logged EXCEPT ![t] = "error"]
    /\ propagated' = [propagated EXCEPT ![t] = ExceptClausePropagates(TRUE)]
    /\ pc' = [pc EXCEPT ![t] = "returned"]

\* lines 65-66: the remote store is read and its records are saved under
\* data/inputdata.
FetchOk(t) ==
    /\ pc[t] = "fetch"
    /\ inputdata' = remote
    /\ pc' = [pc EXCEPT ![t] = "load"]
    /\ UNCHANGED <<opendata, remote, published, combined_docs, unread, staging, outcome, logged,
                   propagated, http, runs, gens, queryVars, pureVars>>

\* lines 65-66 raise: the remote store cannot be reached.
FetchFail(t) ==
    /\ pc[t] = "fetch"
    /\ Raise(t, "fetch_failed")
    /\ unread' = [unread EXCEPT ![t] = @ \cup {"remote"}]
    /\ UNCHANGED <<fsVars, combined_docs, staging, http, runs, gens, queryVars, pureVars>>

\* a refresh that rebuilds whatever it loaded
EmptyCorpusNeverReturns(docs) == FALSE

\* if not combined_docs: (line 72)
EmptyCorpusReturns(docs) == docs = {}

\* lines 68-74: both trees are loaded and merged; an empty collection logs a
\* warning and returns.
LoadDocs(t) ==
    /\ pc[t] = "load"
    /\ LET local_docs == opendata
           database_docs == inputdata
           combined == local_docs \cup database_docs
       IN  /\ combined_docs' = [combined_docs EXCEPT ![t] = combined]
           /\ IF EmptyCorpusReturns(combined)
              THEN /\ logged' = [logged EXCEPT ![t] = "warning"]
                   /\ outcome' = [outcome EXCEPT ![t] = "empty"]
                   /\ pc' = [pc EXCEPT ![t] = "returned"]
              ELSE /\ pc' = [pc EXCEPT ![t] = "build"]
                   /\ UNCHANGED <<logged, outcome>>
    /\ UNCHANGED <<fsVars, unread, staging, propagated, http, runs, gens, queryVars, pureVars>>

\* lines 68-69 raise: a tree cannot be read.
LoadFail(t) ==
    /\ pc[t] = "load"
    /\ Raise(t, "load_failed")
    /\ unread' = [unread EXCEPT ![t] = @ \cup {"local"}]
    /\ UNCHANGED <<fsVars, combined_docs, staging, http, runs, gens, queryVars, pureVars>>

\* create_vector_store (line 76) starts: the new generation is built aside,
\* and is not complete yet.
BuildStart(t) ==
    /\ pc[t] = "build"
    /\ gens' = gens + 1
    /\ staging' = [staging EXCEPT ![t] = [gen |-> gens + 1, docs |-> {}, complete |-> FALSE]]
    /\ pc' = [pc EXCEPT ![t] = "building"]
    /\ UNCHANGED <<fsVars, combined_docs, unread, outcome, logged, propagated, http, runs,
                   queryVars, pureVars>>

\* create_vector_store returns: the generation is complete and replaces the
\* persisted one in one step; line 77 logs the success.
BuildFinish(t) ==
    /\ pc[t] = "building"
    /\ published' = [gen |-> staging[t].gen, docs |-> combined_docs[t], complete |-> TRUE]
    /\ staging' = [staging EXCEPT ![t] = NoIndex]
    /\ outcome' = [outcome EXCEPT ![t] = "updated"]
    /\ logged' = [logged EXCEPT ![t] = "info"]
    /\ pc' = [pc EXCEPT ![t] = "returned"]
    /\ UNCHANGED <<opendata, inputdata, remote, combined_docs, unread, propagated, http, runs, gens,
                   queryVars, pureVars>>

\* create_vector_store raises: the generation built aside is dropped.
BuildFail(t) ==
    /\ pc[t] = "building"
    /\ staging' = [staging EXCEPT ![t] = NoIndex]
    /\ Raise(t, "build_failed")
    /\ UNCHANGED <<fsVars, combined_docs, unread, http, runs, gens, queryVars, pureVars>>

\* update_vector_store is back in its caller.  manual_update_vectorstore
\* (lines 88-93) answers {"status": "Vectorstore updated"} unless the call
\* raised, and then HTTP 500; the scheduler's job just ends.
Return(t) ==
    /\ pc[t] = "returned"
    /\ http' = [http EXCEPT ![t] =
                  IF t = "manual"
                  THEN IF propagated[t] THEN "500" ELSE "Vectorstore updated"
                  ELSE "none"]
    /\ pc' = [pc EXCEPT ![t] = "idle"]
    /\ UNCHANGED <<fsVars, combined_docs, unread, staging, outcome, logged, propagated, runs, gens,
                   queryVars, pureVars>>

\* ----------------------------------------------------- rag_processing
\* An exception leaves rag_processing, which has no try block: the framework
\* answers with an internal server error and nothing of the handler's result.
Crash(cause) ==
    /\ response' = [kind |-> "unhandled_exception", cause |-> cause]
    /\ qpc' = "done"

\* json.dumps(data) of lines 187-192
JsonAnswer(question, answer) ==
    [kind |-> "json", transcription_status |-> question, llm_answer_status |-> answer]

\* POST /api/rag_processing arrives; the text is known by the number of
\* chunks the chunker makes of it.
Receive ==
    /\ qpc = "idle"
    /\ \E n \in 0..MaxChunks :
         /\ chunks' = [j \in 1..n |-> j]
         /\ qpc' = "chunk"
         /\ stages' = <<"received">>
    /\ UNCHANGED <<vector_store, next_chunk, all_retrieved_docs, searched, context_docs,
                   llm_answer_status, invocations, persist_failed, response,
                   fsVars, refreshVars, pureVars>>

\* a loop that stops one chunk early
LoopDoneEarly(i, cs) == i >= Len(cs)

\* for chunk in chunks: (line 163) is exhausted
LoopDone(i, cs) == i > Len(cs)

\* Chunk.chunk_input_message (line 156) returns.
ChunkOk ==
    /\ qpc = "chunk"
    /\ qpc' = "load"
    /\ stages' = Append(stages, "chunked")
    /\ UNCHANGED <<chunks, vector_store, next_chunk, all_retrieved_docs, searched,
                   context_docs, llm_answer_status, invocations, persist_failed, response,
                   fsVars, refreshVars, pureVars>>

ChunkFail ==
    /\ qpc = "chunk"
    /\ Crash("chunking")
    /\ UNCHANGED <<chunks, vector_store, next_chunk, all_retrieved_docs, searched,
                   context_docs, llm_answer_status, invocations, persist_failed, stages,
                   fsVars, refreshVars, pureVars>>

\* CreateVector.load_vector_store('data/static') (line 160) returns the
\* persisted generation, which the handler keeps in vector_store.
LoadStoreOk ==
    /\ qpc = "load"
    /\ published # NoIndex
    /\ vector_store' = published
    /\ next_chunk' = 1
    /\ all_retrieved_docs' = <<>>
    /\ searched' = <<>>
    /\ qpc' = IF LoopDone(1, chunks) THEN "assemble" ELSE "retrieve"
    /\ stages' = IF LoopDone(1, chunks) THEN Append(stages, "retrieved") ELSE stages
    /\ UNCHANGED <<chunks, context_docs, llm_answer_status, invocations, persist_failed,
                   response, fsVars, refreshVars, pureVars>>

\* load_vector_store raises: nothing is persisted, or it cannot be read.
LoadStoreFail ==
    /\ qpc = "load"
    /\ Crash("index_load")
    /\ UNCHANGED <<chunks, vector_store, next_chunk, all_retrieved_docs, searched,
                   context_docs, llm_answer_status, invocations, persist_failed, stages,
                   fsVars, refreshVars, pureVars>>

\* an index looked up again for every chunk
IndexReloadedPerChunk(loaded, persisted) == IF persisted # NoIndex THEN persisted ELSE loaded

\* vector_store.as_retriever(...) (line 164): the index the chunk is searched
\* in is the one line 160 loaded, whatever is persisted by now.
IndexForChunk(loaded, persisted) == loaded

\* The results a similarity search with k = TopK may give: as many passages
\* as the index has, at most k, no passage twice.
SearchResults(index) ==
    LET m == IF Cardinality(index.docs) < TopK THEN Cardinality(index.docs) ELSE TopK
    IN  {r \in [1..m -> index.docs] : \A a, b \in 1..m : a # b => r[a] # r[b]}

\* One iteration of the loop of lines 163-166.
RetrieveOk ==
    /\ qpc = "retrieve"
    /\ ~LoopDone(next_chunk, chunks)
    /\ LET index == IndexForChunk(vector_store, published)
       IN  /\ \E r \in SearchResults(index) :
                all_retrieved_docs' = all_retrieved_docs \o [j \in 1..Len(r) |-> DocOf(r[j])]
           /\ searched' = Append(searched, [chunk |-> chunks[next_chunk], index |-> index])
    /\ next_chunk' = next_chunk + 1
    /\ qpc' = IF LoopDone(next_chunk + 1, chunks) THEN "assemble" ELSE "retrieve"
    /\ stages' = IF LoopDone(next_chunk + 1, chunks) THEN Append(stages, "retrieved") ELSE stages
    /\ UNCHANGED <<chunks, vector_store, context_docs, llm_answer_status, invocations,
                   persist_failed, response, fsVars, refreshVars, pureVars>>

RetrieveFail ==
    /\ qpc = "retrieve"
    /\ ~LoopDone(next_chunk, chunks)
    /\ Crash("retrieval")
    /\ UNCHANGED <<chunks, vector_store, next_chunk, all_retrieved_docs, searched,
                   context_docs, llm_answer_status, invocations, persist_failed, stages,
                   fsVars, refreshVars, pureVars>>

\* lines 168-175: deduplicate, join, truncate.
Assemble ==
    /\ qpc = "assemble"
    /\ all_retrieved_docs' = Deduplicate(all_retrieved_docs)
    /\ context_docs' = truncate_context(JoinContents(Deduplicate(all_retrieved_docs)),
                                        ContextBudget)
    /\ qpc' = "invoke"
    /\ stages' = Append(stages, "context_assembled")
    /\ UNCHANGED <<chunks, vector_store, next_chunk, searched, llm_answer_status,
                   invocations, persist_failed, response, fsVars, refreshVars, pureVars>>

\* lines 177-184: the chain is created and invoked once, and answers.
InvokeOk ==
    /\ qpc = "invoke"
    /\ invocations' = invocations + 1
    /\ llm_answer_status' = "answer"
    /\ qpc' = "persist"
    /\ stages' = Append(stages, "answered")
    /\ UNCHANGED <<chunks, vector_store, next_chunk, all_retrieved_docs, searched,
                   context_docs, persist_failed, response, fsVars, refreshVars, pureVars>>

\* chain.invoke raises.
InvokeFail ==
    /\ qpc = "invoke"
    /\ invocations' = invocations + 1
    /\ Crash("model_invocation")
    /\ UNCHANGED <<chunks, vector_store, next_chunk, all_retrieved_docs, searched,
                   context_docs, llm_answer_status, persist_failed, stages,
                   fsVars, refreshVars, pureVars>>

\* lines 187-196: the pair is pushed to the remote store, then the JSON text
\* is returned.
PersistOk ==
    /\ qpc = "persist"
    /\ remote' = remote \cup {"QA"}
    /\ response' = JsonAnswer(chunks, llm_answer_status)
    /\ qpc' = "done"
    /\ UNCHANGED <<opendata, inputdata, published, chunks, vector_store, next_chunk,
                   all_retrieved_docs, searched, context_docs, llm_answer_status,
                   invocations, persist_failed, stages, refreshVars, pureVars>>

\* line 194 raises before line 196 returns.
PersistFail ==
    /\ qpc = "persist"
    /\ persist_failed' = TRUE
    /\ Crash("persistence")
    /\ UNCHANGED <<chunks, vector_store, next_chunk, all_retrieved_docs, searched,
                   context_docs, llm_answer_status, invocations, stages,
                   fsVars, refreshVars, pureVars>>

\* ------------------------------------------------------ specifications
Unset == [done |-> FALSE, value |-> <<>>]

\* The service after start-up: the scheduler is started and no request is in
\* progress.  The trees and the remote store hold what was left there, and an
\* index may or may not have been persisted by an earlier process.
InitSystem ==
    /\ opendata \in SUBSET {"L"}
    /\ remote \in SUBSET {"R"}
    /\ inputdata = {}
    /\ published \in {NoIndex, [gen |-> 0, docs |-> {"L"}, complete |-> TRUE]}
    /\ pc = [t \in Threads |-> "idle"]
    /\ combined_docs = [t \in Threads |-> {}]
    /\ unread = [t \in Threads |-> {}]
    /\ staging = [t \in Threads |-> NoIndex]
    /\ outcome = [t \in Threads |-> "none"]
    /\ logged = [t \in Threads |-> "none"]
    /\ propagated = [t \in Threads |-> FALSE]
    /\ http = [t \in Threads |-> "none"]
    /\ runs = [t \in Threads |-> 0]
    /\ gens = 0
    /\ qpc = "idle"
    /\ chunks = <<>>
    /\ vector_store = NoIndex
    /\ next_chunk = 1
    /\ all_retrieved_docs = <<>>
    /\ searched = <<>>
    /\ context_docs = <<>>
    /\ llm_answer_status = "in_process"
    /\ invocations = 0
    /\ persist_failed = FALSE
    /\ response = NoResponse
    /\ stages = <<>>

InitPure ==
    /\ tc_context = <<>>
    /\ tc_max_tokens = 0
    /\ tc_result = Unset
    /\ dd_docs = <<>>
    /\ dd_result = Unset

Init == InitSystem /\ InitPure

Refresh(t) ==
    \/ Trigger(t)
    \/ FetchOk(t)
    \/ FetchFail(t)
    \/ LoadDocs(t)
    \/ LoadFail(t)
    \/ BuildStart(t)
    \/ BuildFinish(t)
    \/ BuildFail(t)
    \/ Return(t)

Query ==
    \/ Receive
    \/ ChunkOk
    \/ ChunkFail
    \/ LoadStoreOk
    \/ LoadStoreFail
    \/ RetrieveOk
    \/ RetrieveFail
    \/ Assemble
    \/ InvokeOk
    \/ InvokeFail
    \/ PersistOk
    \/ PersistFail

Next == (\E t \in Threads : Refresh(t)) \/ Query

Spec == Init /\ [][Next]_vars

\* ---- truncate_context on every short context and budget
Strings(n) == UNION {[1..k -> Chars] : k \in 0..n}

InitTruncate ==
    /\ InitSystem
    /\ tc_context \in Strings(MaxLen)
    /\ tc_max_tokens \in 0..MaxTokens
    /\ tc_result = Unset
    /\ dd_docs = <<>>
    /\ dd_result = Unset

TruncateStep ==
    /\ ~tc_result.done
    /\ tc_result' = [done |-> TRUE, value |-> truncate_context(tc_context, tc_max_tokens)]
    /\ UNCHANGED <<tc_context, tc_max_tokens, dd_docs, dd_result, fsVars, refreshVars, queryVars>>

SpecTruncate == InitTruncate /\ [][TruncateStep]_vars

\* ---- the deduplication on every short list of retrieved passages
Passages == [page_content : {<<"a">>, <<"b">>, <<"a", " ", "b">>}, metadata : 1..NumMeta]

InitDedup ==
    /\ InitSystem
    /\ dd_docs \in UNION {[1..k -> Passages] : k \in 0..MaxDocs}
    /\ dd_result = Unset
    /\ tc_context = <<>>
    /\ tc_max_tokens = 0
    /\ tc_result = Unset

DedupStep ==
    /\ ~dd_result.done
    /\ dd_result' = [done |-> TRUE, value |-> Deduplicate(dd_docs)]
    /\ UNCHANGED <<dd_docs, tc_context, tc_max_tokens, tc_result, fsVars, refreshVars, queryVars>>

SpecDedup == InitDedup /\ [][DedupStep]_vars

\* ------------------------------------------------------------- claims
IsPrefix(p, s) == Len(p) <= Len(s) /\ SubSeq(s, 1, Len(p)) = p

Range(s) == {s[j] : j \in 1..Len(s)}

\* C1: at most one execution of update_vector_store is inside the rebuild
\* (between fetching the sources and the end of create_vector_store) at a
\* time; a second trigger is coalesced.
C1_OneRebuildAtATime ==
    Cardinality({t \in Threads : pc[t] \in RebuildPcs}) <= 1

C3_EmptyRefreshKeepsIndex ==
    [][\A t \in Threads :
          (pc[t] = "load" /\ pc'[t] # "load" /\ unread'[t] = {}
               /\ opendata \cup inputdata = {})
          => /\ pc'[t] = "returned"
             /\ outcome'[t] = "empty"
             /\ logged'[t] = "warning"
             /\ published' = published
             /\ staging' = staging]_vars

\* C3 witness: a refresh returned on an empty collection while a non-empty
\* index is persisted.
C3_EmptyRefreshWithIndex ==
    \E t \in Threads :
        /\ pc[t] = "returned"
        /\ outcome[t] = "empty"
        /\ published # NoIndex
        /\ published.docs # {}

\* C4: every query that has ended was answered with the JSON object; none
\* ended in an exception leaving the handler.
C4_EveryQueryAnswered ==
    qpc = "done" => response.kind = "json"

\* C5: a query whose answer was produced and whose hand-over to the storage
\* collaborator failed still returns the answer.
C5_AnswerSurvivesPersistFailure ==
    (qpc = "done" /\ persist_failed)
        => response = JsonAnswer(chunks, llm_answer_status)

\* C6: a refresh that could not read the remote store still loads the local
\* documents and rebuilds the index from them.
C6_UnreadableSourceSkipped ==
    \A t \in Threads :
        (pc[t] = "returned" /\ "remote" \in unread[t] /\ opendata # {})
            => /\ opendata \subseteq combined_docs[t]
               /\ outcome[t] = "updated"

\* C9: the stages of a query are passed in order, none skipped; once
\* retrieval is over every chunk was searched exactly once, in order, in the
\* index the query loaded; the model is invoked at most once and only after
\* the context was assembled.
C9_RetrievalBarrier ==
    /\ IsPrefix(stages, StageOrder)
    /\ "retrieved" \in Range(stages)
         => /\ Len(searched) = Len(chunks)
            /\ \A j \in 1..Len(searched) :
                 searched[j].chunk = chunks[j] /\ searched[j].index = vector_store
    /\ qpc \in {"assemble", "invoke", "persist"} => "retrieved" \in Range(stages)
    /\ invocations <= 1
    /\ invocations = 1 => "context_assembled" \in Range(stages)

\* C9 witness: a query of several chunks went through every stage and was
\* answered.
C9_FullPipeline ==
    /\ qpc = "done"
    /\ Len(chunks) >= 2
    /\ stages = StageOrder
    /\ response.kind = "json"

\* C10: update_vector_store never lets an exception out, and the manual
\* endpoint never answers HTTP 500: after every refresh it has answered
\* {"status": "Vectorstore updated"}.
C10_ManualAlwaysReportsUpdated ==
    /\ \A t \in Threads : ~propagated[t]
    /\ http["manual"] # "500"
    /\ (pc["manual"] = "idle" /\ runs["manual"] > 0) => http["manual"] = "Vectorstore updated"

\* C10 witness: the manual endpoint answered "Vectorstore updated" after a
\* refresh that failed or rebuilt nothing.
C10_UpdatedAfterFailure ==
    /\ http["manual"] = "Vectorstore updated"
    /\ outcome["manual"] \in {"fetch_failed", "load_failed", "build_failed", "empty"}

\* ---- truncate_context
\* C7 as stated: the result has at most N tokens, is a prefix of the context,
\* and is the context itself when that has at most N tokens.
C7_TruncationIsStringPrefix ==
    tc_result.done =>
        /\ Len(Split(tc_result.value)) <= tc_max_tokens
        /\ IsPrefix(tc_result.value, tc_context)
        /\ Len(Split(tc_context)) <= tc_max_tokens => tc_result.value = tc_context

\* C7 amended: the result has at most N tokens; its tokens are the first
\* min(N, number of tokens) tokens of the context, whole; they are joined by
\* single spaces with nothing before or after.  It is a prefix of the
\* context, and the context itself when that has at most N tokens, whenever
\* the context's tokens are already separated by single spaces only.
C7_TruncationIsTokenPrefix ==
    tc_result.done =>
        LET toks == Split(tc_context)
            out == tc_result.value
            normal == tc_context = Join(<<" ">>, toks)
        IN  /\ Len(Split(out)) <= tc_max_tokens
            /\ Split(out) = Take(toks, tc_max_tokens)
            /\ out = Join(<<" ">>, Split(out))
            /\ normal => IsPrefix(out, tc_context)
            /\ (normal /\ Len(toks) <= tc_max_tokens) => out = tc_context

\* C7 witness: a context of more tokens than the budget, with whitespace
\* other than single spaces, was truncated.
C7_TruncatedUnnormalised ==
    /\ tc_result.done
    /\ Len(Split(tc_context)) > tc_max_tokens
    /\ tc_max_tokens >= 1
    /\ tc_context # Join(<<" ">>, Split(tc_context))

\* ---- deduplication
RECURSIVE FirstOccurrencesFrom(_, _)
FirstOccurrencesFrom(docs, seen) ==
    IF docs = <<>> THEN <<>>
    ELSE IF Head(docs).page_content \in seen
         THEN FirstOccurrencesFrom(Tail(docs), seen)
         ELSE <<Head(docs)>> \o
              FirstOccurrencesFrom(Tail(docs), seen \cup {Head(docs).page_content})

\* the passages whose content no earlier passage has, in order
FirstOccurrences(docs) == FirstOccurrencesFrom(docs, {})

ContentsOf(docs) == [j \in 1..Len(docs) |-> docs[j].page_content]

\* C8 as stated: the survivors are the first occurrences, in order.
C8_KeepsFirstOccurrence ==
    dd_result.done => dd_result.value = FirstOccurrences(dd_docs)

\* C8 amended: the survivors' contents are the distinct contents in the order
\* of their first occurrence, each exactly once; the passage kept for a
\* content is the last one retrieved with that content.
C8_KeepsLastAtFirstPosition ==
    dd_result.done =>
        LET out == dd_result.value
        IN  /\ ContentsOf(out) = ContentsOf(FirstOccurrences(dd_docs))
            /\ \A a, b \in 1..Len(out) : a # b => out[a].page_content # out[b].page_content
            /\ \A j \in 1..Len(out) :
                 \E i \in 1..Len(dd_docs) :
                    /\ dd_docs[i] = out[j]
                    /\ \A l \in (i + 1)..Len(dd_docs) :
                         dd_docs[l].page_content # out[j].page_content

\* C8 witness: a list in which a content was retrieved twice, with different
\* metadata, after another content, was deduplicated.
C8_RepeatedContent ==
    /\ dd_result.done
    /\ \E i, j, l \in 1..Len(dd_docs) :
         /\ i < j /\ j < l
         /\ dd_docs[i].page_content = dd_docs[l].page_content
         /\ dd_docs[i].metadata # dd_docs[l].metadata
         /\ dd_docs[j].page_content # dd_docs[i].page_content

====
